---- MODULE Spec2Model ----
(***************************************************************************)
(* A model of the control facade of src/control/control.go: the lifecycle  *)
(* and subscription operations of pluginControl, the concurrent            *)
(* CollectMetrics dispatcher (main goroutine, one worker goroutine per     *)
(* plugin group, the two aggregating goroutines, the two unbuffered        *)
(* channels and the wait group) and PublishMetrics.                        *)
(*                                                                         *)
(* The plugin manager, the metric catalog, the available-plugin pools and  *)
(* the routing strategy are collaborators whose code is not part of        *)
(* control.go; they are modelled from their documented contracts.          *)
(***************************************************************************)
EXTENDS Integers, Sequences, FiniteSets, TLC

VARIABLES
    \* ---- facade (pluginControl) and its collaborators' state
    Started,          \* pluginControl.Started
    loadedPlugins,    \* pluginManager.LoadedPlugins(): the registry
    metricCatalog,    \* metricCatalog: metric id -> record
    events,           \* what the last facade call gave eventManager.Emit, in order
    lastCall,         \* the facade call that completed last, and its outcome
    missIsError,      \* the catalog reports a miss as an error (or as nil, no error)
    \* ---- pools, strategy and clock
    collectors,       \* AvailablePlugins().Collectors: key -> pool
    publishers,       \* AvailablePlugins().Publishers: key -> pool
    cursor,           \* round-robin cursor of each pool
    hitCount,         \* availablePlugin.hitCount
    lastHitTime,      \* availablePlugin.lastHitTime
    now,              \* time.Now()
    \* ---- one CollectMetrics call
    pc,               \* position of the calling goroutine
    request,          \* metricTypes
    deadline,         \* deadline
    pluginToMetricMap,\* result of groupMetricTypesByPlugin
    todo,             \* keys the range loop has not visited yet
    metrics,          \* the named result `metrics` (shared with the workers)
    errs,             \* the named result `errs`
    wg,               \* the sync.WaitGroup counter
    unit,             \* key -> the worker goroutine started for that group
    aggMetrics,       \* the goroutine ranging over cMetrics
    aggErrors,        \* the goroutine ranging over cError
    closed,           \* cMetrics and cError are closed
    returned,         \* what CollectMetrics returned, or none yet
    \* ---- observation of the dispatcher
    selected,         \* instances the routing strategy handed out, in order
    invoked,          \* instances whose RPC was invoked, in order
    errorArose,       \* an error arose at some stage of the current call
    pubResult,        \* what PublishMetrics returned, or none yet
    delivered,        \* key -> the outcomes the aggregators received from its worker
    \* ---- concurrent callers of CollectMetrics
    callers           \* caller -> where it is in `ap.hitCount++`

facadeVars == <<Started, loadedPlugins, metricCatalog, events, lastCall, missIsError>>
poolVars == <<collectors, publishers, cursor, hitCount, lastHitTime>>
callVars == <<pc, request, deadline, pluginToMetricMap, todo, metrics, errs, wg,
              unit, aggMetrics, aggErrors, closed, returned>>
obsVars == <<selected, invoked, errorArose, pubResult>>
vars == <<facadeVars, poolVars, now, callVars, obsVars, delivered, callers>>


\* ------------------------------------------------------------------ bounds
MaxSubs == 2
MaxReq == 2
MaxInst == 2
MaxTime == 1
MaxCallers == 2
MaxCalls == 2

\* ------------------------------------------------------- plugins and paths
PluginA == [name |-> "tempcol", version |-> 1]
PluginB == [name |-> "tempcol", version |-> 2]
PluginC == [name |-> "memcol", version |-> 1]
PluginF == [name |-> "file", version |-> 1]
Plugins == {PluginA, PluginB, PluginC, PluginF}
\* a nil *loadedPlugin
NoPlugin == [name |-> "", version |-> 0]

NsCpu == <<"cpu", "temp">>
NsMem == <<"mem", "free">>
NsDisk == <<"disk", "io">>
Namespaces == {NsCpu, NsMem, NsDisk}

\* the metrics a plugin declares when it is loaded
Declares(lp) ==
    IF lp.name = "tempcol" THEN {[namespace |-> NsCpu, version |-> lp.version]}
    ELSE IF lp.name = "memcol" THEN {[namespace |-> NsMem, version |-> lp.version]}
    ELSE {}

Paths == {"/plugins/tempcol-1", "/plugins/tempcol-2", "/plugins/memcol-1",
          "/plugins/file-1", "/plugins/none"}
\* the paths and plugins the lifecycle calls are made with
LifecyclePaths == {"/plugins/tempcol-1", "/plugins/tempcol-2", "/plugins/none"}
LifecyclePlugins == {PluginA, PluginB}

\* the plugin the executable at a path implements (NoPlugin: no such executable)
PluginAt(path) ==
    CASE path = "/plugins/tempcol-1" -> PluginA
      [] path = "/plugins/tempcol-2" -> PluginB
      [] path = "/plugins/memcol-1" -> PluginC
      [] path = "/plugins/file-1" -> PluginF
      [] OTHER -> NoPlugin

Digit(d) ==
    CASE d = 0 -> "0" [] d = 1 -> "1" [] d = 2 -> "2" [] d = 3 -> "3"
      [] d = 4 -> "4" [] d = 5 -> "5" [] d = 6 -> "6" [] d = 7 -> "7"
      [] d = 8 -> "8" [] d = 9 -> "9"

RECURSIVE Itoa(_)
\* strconv.Itoa
Itoa(n) ==
    IF n < 0 THEN "-" \o Itoa(0 - n)
    ELSE IF n < 10 THEN Digit(n)
    ELSE Itoa(n \div 10) \o Digit(n % 10)

\* strings.Join([]string{name, strconv.Itoa(version)}, ":"), also loadedPlugin.Key()
Key(name, version) == name \o ":" \o Itoa(version)

KeyOf(lp) == Key(lp.name, lp.version)

RECURSIVE JoinFrom(_, _, _)
JoinFrom(parts, sep, i) ==
    IF i > Len(parts) THEN ""
    ELSE IF i = Len(parts) THEN parts[i]
    ELSE parts[i] \o sep \o JoinFrom(parts, sep, i + 1)

\* strings.Join
Join(parts, sep) == JoinFrom(parts, sep, 1)

\* fmt's %s of a []string: the elements between brackets, separated by spaces
FormatStrings(parts) == "[" \o Join(parts, " ") \o "]"

PluginKeys == {KeyOf(lp) : lp \in Plugins}

\* ---------------------------------------------------------- metric catalog
MetricIds == {[namespace |-> ns, version |-> v] : ns \in Namespaces, v \in 1..2}
\* a nil *metricType
NoMetric == [namespace |-> <<>>, version |-> 0]

\* versions of a namespace the catalog knows
KnownVersions(cat, ns) == {id.version : id \in {i \in DOMAIN cat : i.namespace = ns}}

Highest(S) == CHOOSE v \in S : \A w \in S : w <= v

\* catalogsMetrics.Get: the metric a (namespace, version) resolves to, -1 being
\* the highest known version; NoMetric when there is none
CatalogGet(cat, ns, ver) ==
    IF ver = -1
    THEN IF KnownVersions(cat, ns) = {} THEN NoMetric
         ELSE [namespace |-> ns, version |-> Highest(KnownVersions(cat, ns))]
    ELSE IF [namespace |-> ns, version |-> ver] \in DOMAIN cat
         THEN [namespace |-> ns, version |-> ver]
         ELSE NoMetric

\* catalogsMetrics.GetPlugin: the loaded plugin owning the resolved metric
CatalogGetPlugin(cat, ns, ver) ==
    IF CatalogGet(cat, ns, ver) = NoMetric THEN NoPlugin
    ELSE cat[CatalogGet(cat, ns, ver)].plugin

\* the error catalogsMetrics.Get returns with its result: a catalog that reports
\* a miss as an error returns one when it finds no metric, "" otherwise
CatalogGetErr(cat, ns, ver) ==
    IF missIsError /\ CatalogGet(cat, ns, ver) = NoMetric THEN "metric not found"
    ELSE ""

\* the error catalogsMetrics.GetPlugin returns with its result
CatalogGetPluginErr(cat, ns, ver) ==
    IF missIsError /\ CatalogGetPlugin(cat, ns, ver) = NoPlugin
    THEN "metric not found"
    ELSE ""

\* catalogsMetrics.AddLoadedMetricType, for every metric a loaded plugin declares
CatalogAfterLoad(cat, lp) ==
    [id \in DOMAIN cat \cup Declares(lp) |->
        IF id \in Declares(lp)
        THEN [plugin |-> lp,
              subscriptions |-> IF id \in DOMAIN cat THEN cat[id].subscriptions ELSE 0,
              config |-> IF id \in DOMAIN cat THEN cat[id].config ELSE {}]
        ELSE cat[id]]

\* metricType.Subscribe
MetricSubscribe(m) == [m EXCEPT !.subscriptions = @ + 1]

\* catalogsMetrics.Unsubscribe: the error it reports, "" when it succeeds
CatalogUnsubscribeErr(cat, ns, ver) ==
    IF CatalogGet(cat, ns, ver) = NoMetric THEN "metric not found"
    ELSE IF cat[CatalogGet(cat, ns, ver)].subscriptions = 0
         THEN "subscription count cannot be less than 0"
         ELSE ""

CatalogUnsubscribe(cat, ns, ver) ==
    IF CatalogUnsubscribeErr(cat, ns, ver) # "" THEN cat
    ELSE [cat EXCEPT ![CatalogGet(cat, ns, ver)].subscriptions = @ - 1]

\* ----------------------------------------------------------- config policy
\* a config table is a set of <<key, value>> pairs
ConfigTables == { {}, {<<"user", "root">>}, {<<"user", "root">>, <<"rate", "5">>} }

HasKey(t, k) == \E kv \in t : kv[1] = k

\* policy.Process: the errors of a table ("user" is required) ...
PolicyErrors(t) == IF HasKey(t, "user") THEN <<>> ELSE <<"required key missing: user">>

\* ... and the normalized table ("rate" defaults to 1)
PolicyNormalize(t) == IF HasKey(t, "rate") THEN t ELSE t \cup {<<"rate", "1">>}

\* ----------------------------------------------------------- plugin manager
\* pluginManager.LoadPlugin succeeds only for a path that holds a plugin
CanLoad(path) == PluginAt(path) # NoPlugin

\* pluginManager.UnloadPlugin succeeds only for a plugin of the registry
CanUnload(reg, pl) == pl \in reg

\* the errors LoadPlugin and UnloadPlugin report
LoadError(path) == "cannot load " \o path
UnloadError(pl) == "cannot unload " \o KeyOf(pl)

\* ------------------------------------------------------------------- events
Snapshot(reg, cat) ==
    [plugins |-> reg,
     subscriptions |-> [id \in DOMAIN cat |-> cat[id].subscriptions],
     configs |-> [id \in DOMAIN cat |-> cat[id].config]]

\* eventManager.Emit(e): `seen` is the state at the time of the call to Emit
Emit(evs, kind, data, reg, cat) ==
    Append(evs, [kind |-> kind, data |-> data, seen |-> Snapshot(reg, cat)])

Call(op, arg, outcome, errors, trace) ==
    [op |-> op, arg |-> arg, outcome |-> outcome, errors |-> errors,
     trace |-> trace, started |-> Started]

dispatchVars == <<poolVars, now, callVars, obsVars, delivered, callers>>

\* ---------------------------------------------------------- facade actions
Start ==
    /\ Started' = TRUE
    /\ lastCall' = Call("Start", <<>>, "ok", <<>>, <<>>)
    /\ events' = <<>>
    /\ UNCHANGED <<loadedPlugins, metricCatalog, missIsError, dispatchVars>>

Stop ==
    /\ Started' = FALSE
    /\ lastCall' = Call("Stop", <<>>, "ok", <<>>, <<>>)
    /\ events' = <<>>
    /\ UNCHANGED <<loadedPlugins, metricCatalog, missIsError, dispatchVars>>

LoadEmitsAlways(path) ==
    /\ \E ok \in BOOLEAN :
        IF Started /\ ok /\ CanLoad(path)
        THEN /\ loadedPlugins' = loadedPlugins \cup {PluginAt(path)}
             /\ metricCatalog' = CatalogAfterLoad(metricCatalog, PluginAt(path))
             /\ events' = Emit(<<>>, "LoadPluginEvent", <<>>,
                               loadedPlugins', metricCatalog')
             /\ lastCall' = Call("Load", <<path>>, "ok", <<>>, <<"load ok">>)
        ELSE /\ events' = Emit(<<>>, "LoadPluginEvent", <<>>,
                               loadedPlugins, metricCatalog)
             /\ lastCall' = Call("Load", <<path>>, "error", <<LoadError(path)>>,
                                 IF Started THEN <<"load failed">> ELSE <<>>)
             /\ UNCHANGED <<loadedPlugins, metricCatalog>>
    /\ UNCHANGED <<Started, missIsError, dispatchVars>>

Load(path) ==
    /\ IF ~Started
       THEN /\ lastCall' = Call("Load", <<path>>, "error",
                                <<"Must start Controller before calling Load()">>, <<>>)
            /\ UNCHANGED <<loadedPlugins, metricCatalog>> /\ events' = <<>>
       ELSE \E ok \in BOOLEAN :
            IF ok /\ CanLoad(path)
            THEN /\ loadedPlugins' = loadedPlugins \cup {PluginAt(path)}
                 /\ metricCatalog' = CatalogAfterLoad(metricCatalog, PluginAt(path))
                 /\ events' = Emit(<<>>, "LoadPluginEvent", <<>>,
                                   loadedPlugins', metricCatalog')
                 /\ lastCall' = Call("Load", <<path>>, "ok", <<>>, <<"load ok">>)
            ELSE /\ lastCall' = Call("Load", <<path>>, "error", <<LoadError(path)>>,
                                     <<"load failed">>)
                 /\ UNCHANGED <<loadedPlugins, metricCatalog>> /\ events' = <<>>
    /\ UNCHANGED <<Started, missIsError, dispatchVars>>

Unload(pl) ==
    /\ \E ok \in BOOLEAN :
        IF ok /\ CanUnload(loadedPlugins, pl)
        THEN /\ loadedPlugins' = loadedPlugins \ {pl}
             /\ events' = Emit(<<>>, "UnloadPluginEvent", <<>>,
                               loadedPlugins', metricCatalog)
             /\ lastCall' = Call("Unload", <<pl>>, "ok", <<>>, <<"unload ok">>)
        ELSE /\ lastCall' = Call("Unload", <<pl>>, "error", <<UnloadError(pl)>>,
                                 <<"unload failed">>)
             /\ UNCHANGED loadedPlugins /\ events' = <<>>
    /\ UNCHANGED <<Started, metricCatalog, missIsError, dispatchVars>>

SwapUnloadsFirst(inPath, out) ==
    /\ \E lok \in BOOLEAN, uok \in BOOLEAN :
        LET lp == PluginAt(inPath) IN
        IF ~(uok /\ CanUnload(loadedPlugins, out))
        THEN /\ lastCall' = Call("SwapPlugins", <<inPath, out>>, "error",
                                 <<UnloadError(out)>>, <<"unload failed">>)
             /\ UNCHANGED <<loadedPlugins, metricCatalog>> /\ events' = <<>>
        ELSE IF ~(lok /\ CanLoad(inPath))
        THEN /\ loadedPlugins' = loadedPlugins \ {out}
             /\ lastCall' = Call("SwapPlugins", <<inPath, out>>, "error",
                                 <<LoadError(inPath)>>, <<"unload ok", "load failed">>)
             /\ UNCHANGED metricCatalog /\ events' = <<>>
        ELSE /\ loadedPlugins' = (loadedPlugins \ {out}) \cup {lp}
             /\ metricCatalog' = CatalogAfterLoad(metricCatalog, lp)
             /\ events' = Emit(<<>>, "SwapPluginsEvent", <<>>,
                               loadedPlugins', metricCatalog')
             /\ lastCall' = Call("SwapPlugins", <<inPath, out>>, "ok", <<>>,
                                 <<"load ok", "unload ok">>)
    /\ UNCHANGED <<Started, missIsError, dispatchVars>>

SwapDropsRollbackError(inPath, out) ==
    /\ \E lok \in BOOLEAN, uok \in BOOLEAN, rok \in BOOLEAN :
        LET lp == PluginAt(inPath)
            reg1 == loadedPlugins \cup {lp}
            cat1 == CatalogAfterLoad(metricCatalog, lp)
        IN
        IF ~(lok /\ CanLoad(inPath))
        THEN /\ lastCall' = Call("SwapPlugins", <<inPath, out>>, "error",
                                 <<LoadError(inPath)>>, <<"load failed">>)
             /\ UNCHANGED <<loadedPlugins, metricCatalog>> /\ events' = <<>>
        ELSE IF uok /\ CanUnload(reg1, out)
        THEN /\ loadedPlugins' = reg1 \ {out}
             /\ metricCatalog' = cat1
             /\ events' = Emit(<<>>, "SwapPluginsEvent", <<>>,
                               loadedPlugins', metricCatalog')
             /\ lastCall' = Call("SwapPlugins", <<inPath, out>>, "ok", <<>>,
                                 <<"load ok", "unload ok">>)
        ELSE IF rok /\ CanUnload(reg1, lp)
        THEN /\ loadedPlugins' = reg1 \ {lp}
             /\ metricCatalog' = cat1
             /\ lastCall' = Call("SwapPlugins", <<inPath, out>>, "error",
                                 <<UnloadError(out)>>,
                                 <<"load ok", "unload failed", "rollback ok">>)
             /\ events' = <<>>
        ELSE /\ loadedPlugins' = reg1
             /\ metricCatalog' = cat1
             /\ lastCall' = Call("SwapPlugins", <<inPath, out>>, "error",
                                 <<UnloadError(out)>>,
                                 <<"load ok", "unload failed", "rollback failed">>)
             /\ events' = <<>>
    /\ UNCHANGED <<Started, missIsError, dispatchVars>>

SwapPlugins(inPath, out) ==
    /\ \E lok \in BOOLEAN, uok \in BOOLEAN, rok \in BOOLEAN :
        LET lp == PluginAt(inPath)
            reg1 == loadedPlugins \cup {lp}
            cat1 == CatalogAfterLoad(metricCatalog, lp)
        IN
        IF ~(lok /\ CanLoad(inPath))
        THEN \* LoadPlugin failed
             /\ lastCall' = Call("SwapPlugins", <<inPath, out>>, "error",
                                 <<LoadError(inPath)>>, <<"load failed">>)
             /\ UNCHANGED <<loadedPlugins, metricCatalog>> /\ events' = <<>>
        ELSE IF uok /\ CanUnload(reg1, out)
        THEN \* the new plugin is loaded and the old one unloaded
             /\ loadedPlugins' = reg1 \ {out}
             /\ metricCatalog' = cat1
             /\ events' = Emit(<<>>, "SwapPluginsEvent", <<>>,
                               loadedPlugins', metricCatalog')
             /\ lastCall' = Call("SwapPlugins", <<inPath, out>>, "ok", <<>>,
                                 <<"load ok", "unload ok">>)
        ELSE IF rok /\ CanUnload(reg1, lp)
        THEN \* UnloadPlugin(out) failed, the new plugin is unloaded again
             /\ loadedPlugins' = reg1 \ {lp}
             /\ metricCatalog' = cat1
             /\ lastCall' = Call("SwapPlugins", <<inPath, out>>, "error",
                                 <<UnloadError(out)>>,
                                 <<"load ok", "unload failed", "rollback ok">>)
             /\ events' = <<>>
        ELSE \* the rollback failed too
             /\ loadedPlugins' = reg1
             /\ metricCatalog' = cat1
             /\ lastCall' = Call("SwapPlugins", <<inPath, out>>, "error",
                                 <<"failed to rollback after error" \o UnloadError(lp)
                                   \o " -- " \o UnloadError(out)>>,
                                 <<"load ok", "unload failed", "rollback failed">>)
             /\ events' = <<>>
    /\ UNCHANGED <<Started, missIsError, dispatchVars>>

\* the metric types calls are made with: -1 asks for the newest version
MetricTypes ==
    {[namespace |-> ns, version |-> -1] : ns \in Namespaces}
        \cup {[namespace |-> NsCpu, version |-> 1]}

SubscribeCountsBeforeValidation(mt, cd) ==
    /\ LET m == CatalogGet(metricCatalog, mt.namespace, mt.version) IN
       IF CatalogGetErr(metricCatalog, mt.namespace, mt.version) # ""
       THEN /\ lastCall' = Call("SubscribeMetricType", <<mt, cd>>, "error",
                                <<CatalogGetErr(metricCatalog, mt.namespace,
                                                mt.version)>>,
                                <<"get failed">>)
            /\ UNCHANGED metricCatalog /\ events' = <<>>
       ELSE IF m = NoMetric
       THEN /\ lastCall' = Call("SubscribeMetricType", <<mt, cd>>, "error",
                                <<"no metric found cannot subscribe: ("
                                  \o FormatStrings(mt.namespace) \o ") version("
                                  \o Itoa(mt.version) \o ")">>,
                                <<"get nil">>)
            /\ UNCHANGED metricCatalog /\ events' = <<>>
       ELSE /\ metricCatalog[m].subscriptions < MaxSubs
            /\ IF PolicyErrors(cd) # <<>>
               THEN /\ metricCatalog' = [metricCatalog EXCEPT ![m] = MetricSubscribe(@)]
                    /\ events' = <<>>
                    /\ lastCall' = Call("SubscribeMetricType", <<mt, cd>>, "error",
                                        PolicyErrors(cd), <<"get ok", "process failed">>)
               ELSE /\ metricCatalog' =
                         [metricCatalog EXCEPT
                            ![m] = MetricSubscribe([@ EXCEPT !.config = PolicyNormalize(cd)])]
                    /\ events' = Emit(<<>>, "MetricSubscriptionEvent",
                                      <<m.namespace, m.version>>, loadedPlugins,
                                      metricCatalog')
                    /\ lastCall' = Call("SubscribeMetricType", <<mt, cd>>, "ok", <<>>,
                                        <<"get ok", "process ok">>)
    /\ UNCHANGED <<Started, loadedPlugins, missIsError, dispatchVars>>

SubscribeMetricType(mt, cd) ==
    /\ LET m == CatalogGet(metricCatalog, mt.namespace, mt.version) IN
       IF CatalogGetErr(metricCatalog, mt.namespace, mt.version) # ""
       THEN /\ lastCall' = Call("SubscribeMetricType", <<mt, cd>>, "error",
                                <<CatalogGetErr(metricCatalog, mt.namespace,
                                                mt.version)>>,
                                <<"get failed">>)
            /\ UNCHANGED metricCatalog /\ events' = <<>>
       ELSE IF m = NoMetric
       THEN /\ lastCall' = Call("SubscribeMetricType", <<mt, cd>>, "error",
                                <<"no metric found cannot subscribe: ("
                                  \o FormatStrings(mt.namespace) \o ") version("
                                  \o Itoa(mt.version) \o ")">>,
                                <<"get nil">>)
            /\ UNCHANGED metricCatalog /\ events' = <<>>
       ELSE IF PolicyErrors(cd) # <<>>
       THEN /\ lastCall' = Call("SubscribeMetricType", <<mt, cd>>, "error",
                                PolicyErrors(cd), <<"get ok", "process failed">>)
            /\ UNCHANGED metricCatalog /\ events' = <<>>
       ELSE /\ metricCatalog[m].subscriptions < MaxSubs
            /\ metricCatalog' =
                 [metricCatalog EXCEPT
                    ![m] = MetricSubscribe([@ EXCEPT !.config = PolicyNormalize(cd)])]
            /\ events' = Emit(<<>>, "MetricSubscriptionEvent",
                              <<m.namespace, m.version>>, loadedPlugins, metricCatalog')
            /\ lastCall' = Call("SubscribeMetricType", <<mt, cd>>, "ok", <<>>,
                                <<"get ok", "process ok">>)
    /\ UNCHANGED <<Started, loadedPlugins, missIsError, dispatchVars>>

\* the plugin of the registry with that name and version, as the loop over
\* LoadedPlugins() finds it
FindLoaded(reg, name, ver) ==
    IF \E l \in reg : l.name = name /\ l.version = ver
    THEN CHOOSE l \in reg : l.name = name /\ l.version = ver
    ELSE NoPlugin

SubscribePublisher(name, ver, config) ==
    /\ IF FindLoaded(loadedPlugins, name, ver) = NoPlugin
       THEN /\ lastCall' = Call("SubscribePublisher", <<name, ver, config>>, "error",
                                <<"No loaded plugin found for publisher name: " \o name
                                  \o " version: " \o Itoa(ver)>>,
                                <<"find failed">>)
            /\ events' = <<>>
       ELSE IF PolicyErrors(config) # <<>>
       THEN /\ lastCall' = Call("SubscribePublisher", <<name, ver, config>>, "error",
                                PolicyErrors(config), <<"find ok", "process failed">>)
            /\ events' = <<>>
       ELSE /\ events' = Emit(<<>>, "PublisherSubscriptionEvent", <<name, ver>>,
                              loadedPlugins, metricCatalog)
            /\ lastCall' = Call("SubscribePublisher", <<name, ver, config>>, "ok", <<>>,
                                <<"find ok", "process ok">>)
    /\ UNCHANGED <<Started, loadedPlugins, metricCatalog, missIsError, dispatchVars>>

UnsubscribeIgnoresError(mt) ==
    /\ LET m == CatalogGet(metricCatalog, mt.namespace, mt.version) IN
       IF m = NoMetric
       THEN /\ lastCall' = Call("UnsubscribeMetricType", <<mt>>, "panic",
                                <<"metric not found">>, <<"unsubscribe failed">>)
            /\ UNCHANGED metricCatalog /\ events' = <<>>
       ELSE /\ metricCatalog' = [metricCatalog EXCEPT ![m].subscriptions = @ - 1]
            /\ events' = Emit(<<>>, "MetricUnsubscriptionEvent", <<mt.namespace>>,
                              loadedPlugins, metricCatalog')
            /\ lastCall' = Call("UnsubscribeMetricType", <<mt>>, "ok", <<>>,
                                <<"unsubscribe ok">>)
    /\ UNCHANGED <<Started, loadedPlugins, missIsError, dispatchVars>>

UnsubscribeMetricType(mt) ==
    /\ IF CatalogUnsubscribeErr(metricCatalog, mt.namespace, mt.version) # ""
       THEN \* panic(err.Error())
            /\ lastCall' = Call("UnsubscribeMetricType", <<mt>>, "panic",
                                <<CatalogUnsubscribeErr(metricCatalog, mt.namespace,
                                                        mt.version)>>,
                                <<"unsubscribe failed">>)
            /\ UNCHANGED metricCatalog /\ events' = <<>>
       ELSE /\ metricCatalog' =
                 CatalogUnsubscribe(metricCatalog, mt.namespace, mt.version)
            /\ events' = Emit(<<>>, "MetricUnsubscriptionEvent", <<mt.namespace>>,
                              loadedPlugins, metricCatalog')
            /\ lastCall' = Call("UnsubscribeMetricType", <<mt>>, "ok", <<>>,
                                <<"unsubscribe ok">>)
    /\ UNCHANGED <<Started, loadedPlugins, missIsError, dispatchVars>>

\* ------------------------------------------------- pools and the strategy
\* an availablePlugin: its identity and the kind of client it holds
Inst(key, index, client) == [id |-> [key |-> key, index |-> index], client |-> client]
\* a nil *availablePlugin
NoInstance == Inst("", 0, "")

InstanceIds == {[key |-> k, index |-> i] : k \in PluginKeys, i \in 1..MaxInst}

\* a pool index answers GetPluginPool(key) with nil (exists = FALSE) or a pool
NoPool == [exists |-> FALSE, members |-> <<>>]
PoolOf(key, n, client) ==
    [exists |-> TRUE, members |-> [i \in 1..n |-> Inst(key, i, client)]]

\* the pools a key can have: none, an empty one, one to MaxInst instances with
\* the client of the index's kind, or one instance with a client of the other kind
PoolShapes(key, client, other) ==
    {NoPool, PoolOf(key, 0, client), PoolOf(key, 1, other)}
        \cup {PoolOf(key, n, client) : n \in 1..MaxInst}

\* availablePlugins.<index>.GetPluginPool(key)
GetPluginPool(index, key) == IF key \in DOMAIN index THEN index[key] ELSE NoPool

\* pool.Count()
Count(pool) == Len(pool.members)

\* the round-robin strategy: the instance at the pool's cursor, none in an empty pool
Select(pool, cur) ==
    IF Count(pool) = 0 THEN NoInstance
    ELSE pool.members[(cur % Count(pool)) + 1]

\* the cursor after a selection
Advance(pool, cur) == IF Count(pool) = 0 THEN cur ELSE (cur + 1) % Count(pool)

\* getPool: the error it returns, "" when the pool is usable
GetPoolErr(pluginKey, index) ==
    IF ~GetPluginPool(index, pluginKey).exists
    THEN "no available plugins for plugin type (" \o pluginKey \o ")"
    ELSE IF Count(GetPluginPool(index, pluginKey)) = 0
    THEN "there is no availablePlugins in pool (" \o pluginKey \o ")"
    ELSE ""

\* fmt's %v of a *availablePluginPool
FormatPool(pool) == "&{" \o Itoa(Count(pool)) \o "}"

\* getAvailablePlugin: the error it returns for what SelectUsingStrategy gave
\* (selErr: the strategy's own error, ap: the instance), "" when it has one
GetAvailablePluginErr(pool, selErr, ap) ==
    IF selErr # "" THEN selErr
    ELSE IF ap = NoInstance
    THEN "no available plugin selected in pool " \o FormatPool(pool)
    ELSE ""

\* --------------------------------------------------------------- grouping
AddToGroupReplaces(pmts, lp, mt) ==
    [k \in DOMAIN pmts \cup {KeyOf(lp)} |->
        IF k = KeyOf(lp)
        THEN [plugin |-> lp, metricTypes |-> <<mt>>]
        ELSE pmts[k]]

\* pmts[key] after `pmt.metricTypes = append(pmt.metricTypes, mt)`
AddToGroup(pmts, lp, mt) ==
    [k \in DOMAIN pmts \cup {KeyOf(lp)} |->
        IF k = KeyOf(lp)
        THEN [plugin |-> lp,
              metricTypes |-> Append(IF k \in DOMAIN pmts THEN pmts[k].metricTypes
                                     ELSE <<>>, mt)]
        ELSE pmts[k]]

RECURSIVE GroupSkipsMisses(_, _, _, _)
GroupSkipsMisses(cat, metricTypes, i, pmts) ==
    IF i > Len(metricTypes) THEN [err |-> "", pmts |-> pmts]
    ELSE IF CatalogGetPlugin(cat, metricTypes[i].namespace, -1) = NoPlugin
    THEN GroupSkipsMisses(cat, metricTypes, i + 1, pmts)
    ELSE GroupSkipsMisses(cat, metricTypes, i + 1,
                   AddToGroup(pmts, CatalogGetPlugin(cat, metricTypes[i].namespace, -1),
                              metricTypes[i]))

RECURSIVE GroupHonoursVersion(_, _, _, _)
GroupHonoursVersion(cat, metricTypes, i, pmts) ==
    IF i > Len(metricTypes) THEN [err |-> "", pmts |-> pmts]
    ELSE IF CatalogGetPluginErr(cat, metricTypes[i].namespace,
                                metricTypes[i].version) # ""
    THEN [err |-> CatalogGetPluginErr(cat, metricTypes[i].namespace,
                                      metricTypes[i].version),
          pmts |-> <<>>]
    ELSE IF CatalogGetPlugin(cat, metricTypes[i].namespace, metricTypes[i].version)
                = NoPlugin
    THEN [err |-> "Metric missing: " \o Join(metricTypes[i].namespace, "/"),
          pmts |-> <<>>]
    ELSE GroupHonoursVersion(cat, metricTypes, i + 1,
                   AddToGroup(pmts,
                              CatalogGetPlugin(cat, metricTypes[i].namespace,
                                               metricTypes[i].version),
                              metricTypes[i]))

RECURSIVE GroupFrom(_, _, _, _)
GroupFrom(cat, metricTypes, i, pmts) ==
    IF i > Len(metricTypes) THEN [err |-> "", pmts |-> pmts]
    ELSE IF CatalogGetPluginErr(cat, metricTypes[i].namespace, -1) # ""
    THEN [err |-> CatalogGetPluginErr(cat, metricTypes[i].namespace, -1),
          pmts |-> <<>>]
    ELSE IF CatalogGetPlugin(cat, metricTypes[i].namespace, -1) = NoPlugin
    THEN [err |-> "Metric missing: " \o Join(metricTypes[i].namespace, "/"),
          pmts |-> <<>>]
    ELSE GroupFrom(cat, metricTypes, i + 1,
                   AddToGroup(pmts, CatalogGetPlugin(cat, metricTypes[i].namespace, -1),
                              metricTypes[i]))

groupMetricTypesByPlugin(cat, metricTypes) == GroupFrom(cat, metricTypes, 1, <<>>)

\* ------------------------------------------------------------ plugin client
\* what an instance's CollectMetrics answers for the metric types it is asked
Reply(inst, mt) ==
    [i \in 1..Len(mt) |-> [namespace |-> mt[i].namespace, source |-> inst]]

CollectError(inst) == "collect failed on " \o inst.key
PublishError(inst) == "publish failed on " \o inst.key

\* --------------------------------------------------------- CollectMetrics
NoUnit == [pc |-> "none", inst |-> NoInstance.id, mt |-> <<>>, err |-> "", val |-> <<>>]
AggOff == [pc |-> "off", m |-> <<>>, tmp |-> <<>>]
NotReturned == [done |-> FALSE, metrics |-> <<>>, errs |-> <<>>]
NotPublished == [done |-> FALSE, key |-> "", errs |-> <<>>]
\* nothing received yet on cMetrics and cError
NoDelivery == [lists |-> 0, errors |-> 0]

RECURSIVE SeqsUpTo(_, _)
SeqsUpTo(S, n) ==
    IF n = 0 THEN {<<>>}
    ELSE SeqsUpTo(S, n - 1) \cup
         {Append(q, x) : q \in {r \in SeqsUpTo(S, n - 1) : Len(r) = n - 1}, x \in S}

Requests == SeqsUpTo(MetricTypes, MaxReq)

\* the call, up to the range loop: grouping, the channels and the wait group
CM_Call(metricTypes, dl) ==
    /\ pc = "idle"
    /\ LET g == groupMetricTypesByPlugin(metricCatalog, metricTypes) IN
       /\ request' = metricTypes
       /\ deadline' = dl
       /\ metrics' = <<>>
       /\ wg' = 0
       /\ unit' = [k \in PluginKeys |-> NoUnit]
       /\ aggMetrics' = AggOff
       /\ aggErrors' = AggOff
       /\ closed' = FALSE
       /\ selected' = <<>>
       /\ invoked' = <<>>
       /\ pubResult' = NotPublished
       /\ delivered' = [k \in PluginKeys |-> NoDelivery]
       /\ IF g.err # ""
          THEN /\ errs' = <<g.err>>
               /\ returned' = [done |-> TRUE, metrics |-> <<>>, errs |-> <<g.err>>]
               /\ errorArose' = TRUE
               /\ pluginToMetricMap' = <<>>
               /\ todo' = {}
               /\ pc' = "returned"
          ELSE /\ errs' = <<>>
               /\ returned' = NotReturned
               /\ errorArose' = FALSE
               /\ pluginToMetricMap' = g.pmts
               /\ todo' = DOMAIN g.pmts
               /\ pc' = "loop"
    /\ UNCHANGED <<facadeVars, callers, poolVars, now>>

CM_LoopBreaksOnError(k) ==
    /\ pc = "loop"
    /\ k \in todo
    /\ todo' = IF GetPoolErr(k, collectors) # "" THEN {} ELSE todo \ {k}
    /\ \E selFails \in BOOLEAN :
        LET pool == GetPluginPool(collectors, k)
            perr == GetPoolErr(k, collectors)
            ap == Select(pool, cursor.collectors[k])
            aerr == GetAvailablePluginErr(pool, IF selFails THEN "strategy failed"
                                               ELSE "", ap)
        IN
        IF perr # ""
        THEN /\ errs' = Append(errs, perr)
             /\ errorArose' = TRUE
             /\ UNCHANGED <<cursor, hitCount, lastHitTime, wg, unit, selected, invoked>>
        ELSE IF aerr # ""
        THEN /\ errs' = Append(errs, aerr)
             /\ errorArose' = TRUE
             /\ UNCHANGED <<cursor, hitCount, lastHitTime, wg, unit, selected, invoked>>
        ELSE IF ap.client # "collector"
        THEN /\ errs' = Append(errs, "unable to cast client to PluginCollectorClient")
             /\ errorArose' = TRUE
             /\ cursor' = [cursor EXCEPT !.collectors[k] = Advance(pool, @)]
             /\ selected' = Append(selected, ap.id)
             /\ UNCHANGED <<hitCount, lastHitTime, wg, unit, invoked>>
        ELSE /\ wg' = wg + 1
             /\ unit' = [unit EXCEPT ![k] =
                            [pc |-> "call", inst |-> ap.id,
                             mt |-> pluginToMetricMap[k].metricTypes,
                             err |-> "", val |-> <<>>]]
             /\ hitCount' = [hitCount EXCEPT ![ap.id] = @ + 1]
             /\ lastHitTime' = [lastHitTime EXCEPT ![ap.id] = now]
             /\ cursor' = [cursor EXCEPT !.collectors[k] = Advance(pool, @)]
             /\ selected' = Append(selected, ap.id)
             /\ invoked' = Append(invoked, ap.id)
             /\ UNCHANGED <<errs, errorArose>>
    /\ UNCHANGED <<facadeVars, callers, collectors, publishers, now, pc, request, deadline,
                   pluginToMetricMap, metrics, aggMetrics, aggErrors, closed, returned,
                   pubResult,
                   delivered>>


\* one iteration of `for pluginKey, pmt := range pluginToMetricMap`, the map
\* being ranged over in any order; selFails: the strategy reports an error
CM_Loop(k) ==
    /\ pc = "loop"
    /\ k \in todo
    /\ todo' = todo \ {k}
    /\ \E selFails \in BOOLEAN :
        LET pool == GetPluginPool(collectors, k)
            perr == GetPoolErr(k, collectors)
            ap == Select(pool, cursor.collectors[k])
            aerr == GetAvailablePluginErr(pool, IF selFails THEN "strategy failed"
                                               ELSE "", ap)
        IN
        IF perr # ""
        THEN \* getPool failed: continue
             /\ errs' = Append(errs, perr)
             /\ errorArose' = TRUE
             /\ UNCHANGED <<cursor, hitCount, lastHitTime, wg, unit, selected, invoked>>
        ELSE IF aerr # ""
        THEN \* getAvailablePlugin failed: continue
             /\ errs' = Append(errs, aerr)
             /\ errorArose' = TRUE
             /\ UNCHANGED <<cursor, hitCount, lastHitTime, wg, unit, selected, invoked>>
        ELSE IF ap.client # "collector"
        THEN \* the client is no PluginCollectorClient: continue
             /\ errs' = Append(errs, "unable to cast client to PluginCollectorClient")
             /\ errorArose' = TRUE
             /\ cursor' = [cursor EXCEPT !.collectors[k] = Advance(pool, @)]
             /\ selected' = Append(selected, ap.id)
             /\ UNCHANGED <<hitCount, lastHitTime, wg, unit, invoked>>
        ELSE \* wg.Add(1), the worker goroutine, the statistics
             /\ wg' = wg + 1
             /\ unit' = [unit EXCEPT ![k] =
                            [pc |-> "call", inst |-> ap.id,
                             mt |-> pluginToMetricMap[k].metricTypes,
                             err |-> "", val |-> <<>>]]
             /\ hitCount' = [hitCount EXCEPT ![ap.id] = @ + 1]
             /\ lastHitTime' = [lastHitTime EXCEPT ![ap.id] = now]
             /\ cursor' = [cursor EXCEPT !.collectors[k] = Advance(pool, @)]
             /\ selected' = Append(selected, ap.id)
             /\ invoked' = Append(invoked, ap.id)
             /\ UNCHANGED <<errs, errorArose>>
    /\ UNCHANGED <<facadeVars, callers, collectors, publishers, now, pc, request, deadline,
                   pluginToMetricMap, metrics, aggMetrics, aggErrors, closed, returned,
                   pubResult,
                   delivered>>

\* the loop is over: the two aggregating goroutines start, the caller waits
CM_Spawn ==
    /\ pc = "loop"
    /\ todo = {}
    /\ pc' = "wait"
    /\ aggMetrics' = [AggOff EXCEPT !.pc = "recv"]
    /\ aggErrors' = [AggOff EXCEPT !.pc = "recv"]
    /\ UNCHANGED <<facadeVars, callers, poolVars, now, request, deadline, pluginToMetricMap, todo,
                   metrics, errs, wg, unit, closed, returned, obsVars,
                   delivered>>

\* worker k: `metrics, err = cli.CollectMetrics(mt)` once the plugin has answered;
\* `metrics` is the caller's named result, `err` the iteration's own variable
W_Return(k) ==
    /\ unit[k].pc = "call"
    /\ \E ok \in BOOLEAN :
        IF ok
        THEN /\ metrics' = Reply(unit[k].inst, unit[k].mt)
             /\ unit' = [unit EXCEPT ![k].pc = "eval"]
             /\ UNCHANGED errorArose
        ELSE /\ metrics' = <<>>
             /\ unit' = [unit EXCEPT ![k].pc = "sendError",
                                     ![k].err = CollectError(unit[k].inst)]
             /\ errorArose' = TRUE
    /\ UNCHANGED <<facadeVars, callers, poolVars, now, pc, request, deadline, pluginToMetricMap,
                   todo, errs, wg, aggMetrics, aggErrors, closed, returned, selected,
                   invoked, pubResult,
                   delivered>>

\* worker k: the operand of `cMetrics <- metrics` is evaluated
W_Eval(k) ==
    /\ unit[k].pc = "eval"
    /\ unit' = [unit EXCEPT ![k].pc = "sendMetrics", ![k].val = metrics]
    /\ UNCHANGED <<facadeVars, callers, poolVars, now, pc, request, deadline, pluginToMetricMap,
                   todo, metrics, errs, wg, aggMetrics, aggErrors, closed, returned,
                   obsVars,
                   delivered>>

\* `for m := range cMetrics`: worker k's send meets the receive, and the
\* aggregator reads `metrics` for the append
A_Recv(k) ==
    /\ aggMetrics.pc = "recv"
    /\ ~closed
    /\ unit[k].pc = "sendMetrics"
    /\ unit' = [unit EXCEPT ![k].pc = "done"]
    /\ aggMetrics' = [pc |-> "append", m |-> unit[k].val, tmp |-> metrics]
    /\ delivered' = [delivered EXCEPT ![k].lists = @ + 1]
    /\ UNCHANGED <<facadeVars, callers, poolVars, now, pc, request, deadline, pluginToMetricMap,
                   todo, metrics, errs, wg, aggErrors, closed, returned, selected,
                   invoked, errorArose, pubResult>>

A_AppendForgetsDone ==
    /\ aggMetrics.pc = "append"
    /\ metrics' = aggMetrics.tmp \o aggMetrics.m
    /\ aggMetrics' = [AggOff EXCEPT !.pc = "recv"]
    /\ UNCHANGED <<facadeVars, callers, poolVars, now, pc, request, deadline,
                   pluginToMetricMap, todo, errs, wg, unit, aggErrors, closed, returned,
                   obsVars, delivered>>

\* `metrics = append(metrics, m...)` is written back, then wg.Done()
A_Append ==
    /\ aggMetrics.pc = "append"
    /\ metrics' = aggMetrics.tmp \o aggMetrics.m
    /\ wg' = wg - 1
    /\ aggMetrics' = [AggOff EXCEPT !.pc = "recv"]
    /\ UNCHANGED <<facadeVars, callers, poolVars, now, pc, request, deadline, pluginToMetricMap,
                   todo, errs, unit, aggErrors, closed, returned, obsVars,
                   delivered>>

\* `for e := range cError`: worker k's send meets the receive,
\* `errs = append(errs, e)`, wg.Done()
E_Recv(k) ==
    /\ aggErrors.pc = "recv"
    /\ ~closed
    /\ unit[k].pc = "sendError"
    /\ unit' = [unit EXCEPT ![k].pc = "done"]
    /\ errs' = Append(errs, unit[k].err)
    /\ wg' = wg - 1
    /\ delivered' = [delivered EXCEPT ![k].errors = @ + 1]
    /\ UNCHANGED <<facadeVars, callers, poolVars, now, pc, request, deadline, pluginToMetricMap,
                   todo, metrics, aggMetrics, aggErrors, closed, returned, selected,
                   invoked, errorArose, pubResult>>

CM_ReturnsMetricsWithErrors ==
    /\ pc = "wait"
    /\ wg = 0
    /\ closed' = TRUE
    /\ aggMetrics' = AggOff
    /\ aggErrors' = AggOff
    /\ returned' = [done |-> TRUE, metrics |-> metrics, errs |-> errs]
    /\ pc' = "returned"
    /\ UNCHANGED <<facadeVars, callers, poolVars, now, request, deadline, pluginToMetricMap, todo,
                   metrics, errs, wg, unit, selected, invoked, errorArose, pubResult,
                   delivered>>

CM_ReturnsWithoutWaiting ==
    /\ pc = "wait"
    /\ closed' = TRUE
    /\ aggMetrics' = AggOff
    /\ aggErrors' = AggOff
    /\ returned' = IF Len(errs) > 0
                   THEN [done |-> TRUE, metrics |-> <<>>, errs |-> errs]
                   ELSE [done |-> TRUE, metrics |-> metrics, errs |-> errs]
    /\ pc' = "returned"
    /\ UNCHANGED <<facadeVars, callers, poolVars, now, request, deadline, pluginToMetricMap, todo,
                   metrics, errs, wg, unit, selected, invoked, errorArose, pubResult,
                   delivered>>

\* wg.Wait() returns, the channels are closed (the aggregators leave their
\* loops) and the call returns
CM_Return ==
    /\ pc = "wait"
    /\ wg = 0
    /\ closed' = TRUE
    /\ aggMetrics' = AggOff
    /\ aggErrors' = AggOff
    /\ returned' = IF Len(errs) > 0
                   THEN [done |-> TRUE, metrics |-> <<>>, errs |-> errs]
                   ELSE [done |-> TRUE, metrics |-> metrics, errs |-> errs]
    /\ pc' = "returned"
    /\ UNCHANGED <<facadeVars, callers, poolVars, now, request, deadline, pluginToMetricMap, todo,
                   metrics, errs, wg, unit, selected, invoked, errorArose, pubResult,
                   delivered>>

\* time passes
Tick ==
    /\ now < MaxTime
    /\ now' = now + 1
    /\ UNCHANGED <<facadeVars, callers, poolVars, callVars, obsVars,
                   delivered>>

\* --------------------------------------------------------- PublishMetrics
PublisherNames == {"file", "tempcol"}
PublisherVersions == {1, 2}

PublishSkipsPoolCheck(pluginName, pluginVersion) ==
    /\ pc = "idle"
    /\ returned' = NotReturned
    /\ \E selFails \in BOOLEAN :
        LET key == Key(pluginName, pluginVersion)
            pool == GetPluginPool(publishers, key)
            ap == Select(pool, cursor.publishers[key])
        IN
        IF selFails \/ ap = NoInstance \/ ap.client # "publisher"
        THEN /\ pubResult' = [done |-> TRUE, key |-> key, errs |-> <<>>]
             /\ pc' = "returned"
             /\ selected' = <<>>
             /\ invoked' = <<>>
             /\ errorArose' = TRUE
             /\ UNCHANGED cursor
        ELSE /\ pubResult' = [done |-> FALSE, key |-> key, errs |-> <<>>]
             /\ pc' = "publish"
             /\ selected' = <<ap.id>>
             /\ invoked' = <<ap.id>>
             /\ errorArose' = FALSE
             /\ cursor' = [cursor EXCEPT !.publishers[key] = Advance(pool, @)]
    /\ UNCHANGED <<facadeVars, callers, collectors, publishers, hitCount, lastHitTime, now,
                   request, deadline, pluginToMetricMap, todo, metrics, errs, wg, unit,
                   aggMetrics, aggErrors, closed, delivered>>

\* the call, up to the invocation of cli.Publish; selFails: the strategy
\* reports an error
PublishMetrics(pluginName, pluginVersion) ==
    /\ pc = "idle"
    /\ returned' = NotReturned
    /\ \E selFails \in BOOLEAN :
        LET key == Key(pluginName, pluginVersion)
            pool == GetPluginPool(publishers, key)
            ap == Select(pool, cursor.publishers[key])
            aerr == GetAvailablePluginErr(pool, IF selFails THEN "strategy failed"
                                               ELSE "", ap)
        IN
        IF ~pool.exists
        THEN /\ pubResult' = [done |-> TRUE, key |-> key,
                              errs |-> <<"No available plugin found for " \o key>>]
             /\ pc' = "returned"
             /\ selected' = <<>>
             /\ invoked' = <<>>
             /\ errorArose' = TRUE
             /\ UNCHANGED cursor
        ELSE IF aerr # ""
        THEN /\ pubResult' = [done |-> TRUE, key |-> key, errs |-> <<aerr>>]
             /\ pc' = "returned"
             /\ selected' = <<>>
             /\ invoked' = <<>>
             /\ errorArose' = TRUE
             /\ UNCHANGED cursor
        ELSE IF ap.client # "publisher"
        THEN /\ pubResult' = [done |-> TRUE, key |-> key,
                              errs |-> <<"unable to cast client to PluginPublisherClient">>]
             /\ pc' = "returned"
             /\ selected' = <<ap.id>>
             /\ invoked' = <<>>
             /\ errorArose' = TRUE
             /\ cursor' = [cursor EXCEPT !.publishers[key] = Advance(pool, @)]
        ELSE \* cli.Publish is invoked: the caller waits for the plugin's answer
             /\ pubResult' = [done |-> FALSE, key |-> key, errs |-> <<>>]
             /\ pc' = "publish"
             /\ selected' = <<ap.id>>
             /\ invoked' = <<ap.id>>
             /\ errorArose' = FALSE
             /\ cursor' = [cursor EXCEPT !.publishers[key] = Advance(pool, @)]
    /\ UNCHANGED <<facadeVars, callers, collectors, publishers, hitCount, lastHitTime, now,
                   request, deadline, pluginToMetricMap, todo, metrics, errs, wg, unit,
                   aggMetrics, aggErrors, closed, delivered>>

\* the plugin has answered cli.Publish: PublishMetrics returns its error, or nil
P_Return ==
    /\ pc = "publish"
    /\ pc' = "returned"
    /\ \E ok \in BOOLEAN :
        /\ pubResult' = [pubResult EXCEPT
                            !.done = TRUE,
                            !.errs = IF ok THEN <<>> ELSE <<PublishError(invoked[1])>>]
        /\ errorArose' = ~ok
    /\ UNCHANGED <<facadeVars, poolVars, now, request, deadline, pluginToMetricMap,
                   todo, metrics, errs, wg, unit, aggMetrics, aggErrors, closed,
                   returned, selected, invoked, delivered, callers>>

\* ------------------------------------- concurrent callers of CollectMetrics
\* the goroutines calling CollectMetrics at the same time
Callers == 1..MaxCallers
\* a caller between two calls
NoCaller == [pc |-> "idle", ap |-> NoInstance.id, tmp |-> 0, calls |-> 0]

\* caller c, in a call for a metric of tempcol:2, resolves the pool and is
\* handed an instance with a collector client
H_Select(c) ==
    /\ callers[c].pc = "idle"
    /\ callers[c].calls < MaxCalls
    /\ LET k == KeyOf(PluginB)
           pool == GetPluginPool(collectors, k)
           ap == Select(pool, cursor.collectors[k])
       IN
       /\ GetPoolErr(k, collectors) = ""
       /\ GetAvailablePluginErr(pool, "", ap) = ""
       /\ ap.client = "collector"
       /\ cursor' = [cursor EXCEPT !.collectors[k] = Advance(pool, @)]
       /\ callers' = [callers EXCEPT ![c] =
                         [pc |-> "selected", ap |-> ap.id, tmp |-> 0,
                          calls |-> callers[c].calls + 1]]
    /\ UNCHANGED <<facadeVars, collectors, publishers, hitCount, lastHitTime, now,
                   callVars, obsVars, delivered>>

\* `ap.hitCount++`: the counter is read ...
H_Load(c) ==
    /\ callers[c].pc = "selected"
    /\ callers' = [callers EXCEPT ![c].pc = "loaded",
                                  ![c].tmp = hitCount[callers[c].ap]]
    /\ UNCHANGED <<facadeVars, poolVars, now, callVars, obsVars, delivered>>

\* ... and the value read plus one is written back; `ap.lastHitTime = time.Now()`
H_Store(c) ==
    /\ callers[c].pc = "loaded"
    /\ hitCount' = [hitCount EXCEPT ![callers[c].ap] = callers[c].tmp + 1]
    /\ lastHitTime' = [lastHitTime EXCEPT ![callers[c].ap] = now]
    /\ callers' = [callers EXCEPT ![c].pc = "idle"]
    /\ UNCHANGED <<facadeVars, collectors, publishers, cursor, now, callVars, obsVars,
                   delivered>>

\* ------------------------------------------------------------ initial states
NoCall == [op |-> "New", arg |-> <<>>, outcome |-> "ok", errors |-> <<>>,
           trace |-> <<>>, started |-> FALSE]

\* no CollectMetrics or PublishMetrics call is under way
DispatcherIdle ==
    /\ now = 0
    /\ pc = "idle"
    /\ request = <<>>
    /\ deadline = 0
    /\ pluginToMetricMap = <<>>
    /\ todo = {}
    /\ metrics = <<>>
    /\ errs = <<>>
    /\ wg = 0
    /\ unit = [k \in PluginKeys |-> NoUnit]
    /\ aggMetrics = AggOff
    /\ aggErrors = AggOff
    /\ closed = FALSE
    /\ returned = NotReturned
    /\ selected = <<>>
    /\ invoked = <<>>
    /\ errorArose = FALSE
    /\ pubResult = NotPublished
    /\ delivered = [k \in PluginKeys |-> NoDelivery]
    /\ callers = [c \in Callers |-> NoCaller]

\* the cursors a strategy can have left in the pools of an index
Cursors(index) ==
    {c \in [PluginKeys -> 0..(MaxInst - 1)] :
        \A k \in PluginKeys : c[k] = 0 \/ c[k] < Count(index[k])}

FreshStatistics ==
    /\ cursor \in [collectors : Cursors(collectors), publishers : Cursors(publishers)]
    /\ hitCount = [i \in InstanceIds |-> 0]
    /\ lastHitTime = [i \in InstanceIds |-> 0]

\* New(): nothing started, nothing loaded, no instance running
Init ==
    /\ Started = FALSE
    /\ loadedPlugins = {}
    /\ metricCatalog = <<>>
    /\ events = <<>>
    /\ lastCall = NoCall
    /\ missIsError \in BOOLEAN
    /\ collectors = [k \in PluginKeys |-> NoPool]
    /\ publishers = [k \in PluginKeys |-> NoPool]
    /\ FreshStatistics
    /\ DispatcherIdle

Next ==
    \/ Start
    \/ Stop
    \/ \E path \in LifecyclePaths : Load(path)
    \/ \E pl \in LifecyclePlugins : Unload(pl)
    \/ \E path \in LifecyclePaths, pl \in LifecyclePlugins : SwapPlugins(path, pl)
    \/ \E mt \in MetricTypes, cd \in ConfigTables : SubscribeMetricType(mt, cd)
    \/ \E mt \in MetricTypes : UnsubscribeMetricType(mt)
    \/ \E lp \in LifecyclePlugins, cd \in ConfigTables : SubscribePublisher(lp.name, lp.version, cd)

Spec == Init /\ [][Next]_vars

\* the catalog once every plugin has been loaded
CatalogOfAll ==
    CatalogAfterLoad(CatalogAfterLoad(CatalogAfterLoad(
        CatalogAfterLoad(<<>>, PluginA), PluginB), PluginC), PluginF)

HealthyCollectors ==
    [k \in PluginKeys |->
        IF k = KeyOf(PluginF) THEN NoPool ELSE PoolOf(k, 1, "collector")]
HealthyPublishers ==
    [k \in PluginKeys |->
        IF k = KeyOf(PluginF) THEN PoolOf(k, 1, "publisher") ELSE NoPool]

\* started, every plugin loaded, and the running instances in any of the shapes
\* a pool can have, for the two collectors that own metrics or for the publisher
DispatchInit ==
    /\ Started = TRUE
    /\ loadedPlugins = Plugins
    /\ metricCatalog = CatalogOfAll
    /\ events = <<>>
    /\ lastCall = [NoCall EXCEPT !.op = "Start", !.started = TRUE]
    /\ missIsError \in BOOLEAN
    /\ \/ /\ \E pb \in PoolShapes(KeyOf(PluginB), "collector", "publisher"),
                pm \in PoolShapes(KeyOf(PluginC), "collector", "publisher") :
                collectors = [HealthyCollectors EXCEPT ![KeyOf(PluginB)] = pb,
                                                       ![KeyOf(PluginC)] = pm]
          /\ publishers = HealthyPublishers
       \/ /\ collectors = HealthyCollectors
          /\ \E pf \in PoolShapes(KeyOf(PluginF), "publisher", "collector") :
                publishers = [HealthyPublishers EXCEPT ![KeyOf(PluginF)] = pf]
    /\ FreshStatistics
    /\ DispatcherIdle

\* calls whose deadline does not pass while they run
DispatchNext ==
    \/ \E metricTypes \in Requests : CM_Call(metricTypes, MaxTime)
    \/ \E k \in PluginKeys : CM_Loop(k)
    \/ CM_Spawn
    \/ \E k \in PluginKeys : W_Return(k)
    \/ \E k \in PluginKeys : W_Eval(k)
    \/ \E k \in PluginKeys : A_Recv(k)
    \/ A_Append
    \/ \E k \in PluginKeys : E_Recv(k)
    \/ CM_Return
    \/ \E n \in PublisherNames, v \in PublisherVersions : PublishMetrics(n, v)
    \/ P_Return

DispatchSpec == DispatchInit /\ [][DispatchNext]_vars

\* the same with time passing and any deadline
TimedNext ==
    \/ DispatchNext
    \/ \E metricTypes \in Requests, dl \in 0..(MaxTime - 1) : CM_Call(metricTypes, dl)
    \/ Tick

\* The goroutines of the call are scheduled fairly; whether and when a plugin
\* answers (W_Return) is up to the plugin.
TimedFairness ==
    /\ WF_vars(Tick)
    /\ WF_vars(CM_Spawn)
    /\ WF_vars(CM_Return)
    /\ WF_vars(A_Append)
    /\ \A k \in PluginKeys :
          /\ WF_vars(CM_Loop(k))
          /\ WF_vars(W_Eval(k))
          /\ WF_vars(A_Recv(k))
          /\ WF_vars(E_Recv(k))

TimedSpec == DispatchInit /\ [][TimedNext]_vars /\ TimedFairness

\* Every invoked plugin answers and the goroutines of the call are scheduled
\* fairly.
AnswerFairness ==
    /\ WF_vars(CM_Spawn)
    /\ WF_vars(CM_Return)
    /\ WF_vars(A_Append)
    /\ WF_vars(P_Return)
    /\ \A k \in PluginKeys :
          /\ WF_vars(CM_Loop(k))
          /\ WF_vars(W_Return(k))
          /\ WF_vars(W_Eval(k))
          /\ WF_vars(A_Recv(k))
          /\ WF_vars(E_Recv(k))

AnswerSpec == DispatchInit /\ [][DispatchNext]_vars /\ AnswerFairness

\* several goroutines call CollectMetrics, each several times, for a metric of
\* tempcol:2, whose pool holds one to MaxInst collector instances
HitInit ==
    /\ Started = TRUE
    /\ loadedPlugins = Plugins
    /\ metricCatalog = CatalogOfAll
    /\ events = <<>>
    /\ lastCall = [NoCall EXCEPT !.op = "Start", !.started = TRUE]
    /\ missIsError \in BOOLEAN
    /\ \E n \in 1..MaxInst :
          collectors = [HealthyCollectors EXCEPT
                           ![KeyOf(PluginB)] = PoolOf(KeyOf(PluginB), n, "collector")]
    /\ publishers = HealthyPublishers
    /\ FreshStatistics
    /\ DispatcherIdle

HitNext ==
    \/ \E c \in Callers : H_Select(c)
    \/ \E c \in Callers : H_Load(c)
    \/ \E c \in Callers : H_Store(c)

HitSpec == HitInit /\ [][HitNext]_vars

\* =================================================================== claims

\* the lists the invoked instances answered, by group
Replies == [k \in {g \in PluginKeys : unit[g].pc # "none"} |->
               Reply(unit[k].inst, unit[k].mt)]

\* C1: a CollectMetrics call never returns metrics together with errors, and
\* once an error arose at any stage (grouping, pool, selection, cast, plugin
\* invocation) it returns the errors and no metric, whatever the other groups
\* answered.
C1_FailClosed ==
    returned.done =>
        /\ ~(returned.metrics # <<>> /\ returned.errs # <<>>)
        /\ errorArose => (returned.metrics = <<>> /\ returned.errs # <<>>)

\* a call has returned in which one group's plugin answered with metrics, its
\* list was merged into `metrics`, and another group failed
C1_Witness ==
    /\ returned.done
    /\ returned.errs # <<>>
    /\ returned.metrics = <<>>
    /\ metrics # <<>>
    /\ \E k \in PluginKeys : unit[k].pc = "done" /\ unit[k].err = ""

RECURSIVE IsMergeOf(_, _)
\* r is a merge of the lists: every list's elements, each once, in the list's order
IsMergeOf(r, lists) ==
    IF r = <<>> THEN \A k \in DOMAIN lists : lists[k] = <<>>
    ELSE \E k \in DOMAIN lists :
            /\ lists[k] # <<>>
            /\ Head(lists[k]) = Head(r)
            /\ IsMergeOf(Tail(r), [lists EXCEPT ![k] = Tail(@)])

\* C2: a CollectMetrics call in which no error arose returns no error and
\* exactly the merge of the lists its invoked plugins answered (with one group:
\* that plugin's list).
C2_ReturnsTheMerge ==
    (returned.done /\ ~errorArose) =>
        /\ returned.errs = <<>>
        /\ IsMergeOf(returned.metrics, Replies)

\* C3: once the deadline of a running CollectMetrics call has passed, the call
\* returns.
C3_ReturnsAfterDeadline ==
    ((pc \in {"loop", "wait"}) /\ now > deadline) ~> returned.done

\* C4: a SwapPlugins(path of B, A) made with A loaded and B another plugin never
\* leaves both A and B absent; when unloading A fails and the rollback succeeds,
\* A is present and B absent; when it succeeds, A is absent and B present.
C4_SwapAtomicity ==
    [][\A path \in LifecyclePaths, A \in LifecyclePlugins :
        (/\ lastCall'.op = "SwapPlugins"
         /\ lastCall'.arg = <<path, A>>
         /\ A \in loadedPlugins
         /\ PluginAt(path) # A)
        => /\ A \in loadedPlugins' \/ PluginAt(path) \in loadedPlugins'
           /\ lastCall'.trace = <<"load ok", "unload failed", "rollback ok">>
                => (A \in loadedPlugins' /\ PluginAt(path) \notin loadedPlugins')
           /\ lastCall'.outcome = "ok"
                => (A \notin loadedPlugins' /\ PluginAt(path) \in loadedPlugins')
           /\ lastCall'.outcome = "ok" \/ A \in loadedPlugins']_vars

\* SwapPlugins(path of tempcol:2, tempcol:1) has loaded tempcol:2, failed to
\* unload tempcol:1 and rolled back
C4_Witness ==
    /\ lastCall.op = "SwapPlugins"
    /\ lastCall.arg = <<"/plugins/tempcol-2", PluginA>>
    /\ lastCall.trace = <<"load ok", "unload failed", "rollback ok">>
    /\ PluginA \in loadedPlugins
    /\ PluginB \notin loadedPlugins

\* the subscription count of the metric a metric type resolves to, -1 when it
\* resolves to none
CountOf(cat, mt) ==
    IF CatalogGet(cat, mt.namespace, mt.version) = NoMetric THEN -1
    ELSE cat[CatalogGet(cat, mt.namespace, mt.version)].subscriptions

\* C5: no subscription count is ever negative, and an UnsubscribeMetricType of a
\* metric whose count is 0 panics, emits no event and leaves the catalog as it
\* was.
C5_SubscriptionBounds ==
    /\ [](\A id \in DOMAIN metricCatalog : metricCatalog[id].subscriptions >= 0)
    /\ [][\A mt \in MetricTypes :
            (/\ lastCall'.op = "UnsubscribeMetricType"
             /\ lastCall'.arg = <<mt>>
             /\ CountOf(metricCatalog, mt) = 0)
            => /\ lastCall'.outcome = "panic"
               /\ events' = <<>>
               /\ metricCatalog' = metricCatalog]_vars

\* a metric was subscribed and unsubscribed, and the next UnsubscribeMetricType,
\* at count 0, panicked
C5_Witness ==
    /\ lastCall.op = "UnsubscribeMetricType"
    /\ lastCall.outcome = "panic"
    /\ lastCall.errors = <<"subscription count cannot be less than 0">>
    /\ events = <<>>
    /\ \E id \in DOMAIN metricCatalog :
          metricCatalog[id].subscriptions = 0 /\ metricCatalog[id].config # {}

\* C6: a SubscribeMetricType that finds no metric or whose config fails the
\* policy returns errors and leaves the catalog as it was; otherwise it attaches
\* the normalized config to the metric and adds exactly one to its count,
\* changing no other metric.
C6_SubscribeAllOrNothing ==
    [][\A mt \in MetricTypes, cd \in ConfigTables :
        (lastCall'.op = "SubscribeMetricType" /\ lastCall'.arg = <<mt, cd>>)
        => LET m == CatalogGet(metricCatalog, mt.namespace, mt.version) IN
           IF m = NoMetric \/ PolicyErrors(cd) # <<>>
           THEN /\ lastCall'.outcome = "error"
                /\ lastCall'.errors # <<>>
                /\ metricCatalog' = metricCatalog
           ELSE /\ lastCall'.outcome = "ok"
                /\ lastCall'.errors = <<>>
                /\ metricCatalog' =
                     [metricCatalog EXCEPT
                        ![m].config = PolicyNormalize(cd),
                        ![m].subscriptions = metricCatalog[m].subscriptions + 1]]_vars

\* a subscription with a config the policy rejects failed on a cataloged metric
\* that an earlier subscription had counted
C6_Witness ==
    /\ lastCall.op = "SubscribeMetricType"
    /\ lastCall.outcome = "error"
    /\ lastCall.trace = <<"get ok", "process failed">>
    /\ \E id \in DOMAIN metricCatalog : metricCatalog[id].subscriptions = 1

GatedOps == {"Load", "Unload", "SwapPlugins", "SubscribeMetricType",
             "UnsubscribeMetricType", "SubscribePublisher"}

\* C7: a Load, Unload, SwapPlugins, SubscribeMetricType, UnsubscribeMetricType
\* or SubscribePublisher made while the facade is not started returns an error
\* (no panic) and leaves the registry and the catalog as they were.
C7_StartedGate ==
    [][(lastCall'.op \in GatedOps /\ ~Started)
        => /\ lastCall'.outcome = "error"
           /\ UNCHANGED <<loadedPlugins, metricCatalog>>]_vars

EventKind(op) ==
    CASE op = "Load" -> "LoadPluginEvent"
      [] op = "Unload" -> "UnloadPluginEvent"
      [] op = "SwapPlugins" -> "SwapPluginsEvent"
      [] op = "SubscribeMetricType" -> "MetricSubscriptionEvent"
      [] op = "UnsubscribeMetricType" -> "MetricUnsubscriptionEvent"
      [] op = "SubscribePublisher" -> "PublisherSubscriptionEvent"

\* C8: a successful Load, Unload, SwapPlugins, SubscribeMetricType,
\* UnsubscribeMetricType or SubscribePublisher has emitted exactly one event, of
\* its own kind, at a time when its state change was already applied; one that
\* returned an error or panicked has emitted none.
C8_EventsFollowSuccess ==
    lastCall.op \in GatedOps =>
        IF lastCall.outcome = "ok"
        THEN /\ Len(events) = 1
             /\ events[1].kind = EventKind(lastCall.op)
             /\ events[1].seen = Snapshot(loadedPlugins, metricCatalog)
        ELSE events = <<>>

\* a successful Load has emitted its event with the plugin in the registry
C8_Witness ==
    /\ lastCall.op = "Load"
    /\ lastCall.outcome = "ok"
    /\ Len(events) = 1
    /\ events[1].seen.plugins # {}

\* the instances selected in a step
NewlySelected(old, new) == SubSeq(new, Len(old) + 1, Len(new))
Occurrences(q, x) == Cardinality({n \in 1..Len(q) : q[n] = x})

\* C9: every selection of an instance, by CollectMetrics or by PublishMetrics,
\* adds one to the hit count of that instance and sets its last-hit time; no
\* other hit count changes.
C9_HitCountFollowsSelection ==
    [][\A i \in InstanceIds :
        /\ hitCount'[i] = hitCount[i] + Occurrences(NewlySelected(selected, selected'), i)
        /\ Occurrences(NewlySelected(selected, selected'), i) > 0
             => lastHitTime'[i] = now]_vars

\* C10: PublishMetrics returns at most one error: exactly one when the pool is
\* absent or empty, when the selection fails, when the selected client is no
\* publisher client (Publish being invoked on no instance in these cases) and
\* when the invocation fails; none when the invocation succeeds, Publish having
\* been invoked on exactly one instance, the selected one.
C10_PublishAtMostOneError ==
    pubResult.done =>
        LET pool == GetPluginPool(publishers, pubResult.key)
            casts == \A n \in 1..Len(selected) :
                        \E x \in 1..Count(pool) :
                            /\ pool.members[x].id = selected[n]
                            /\ pool.members[x].client = "publisher"
        IN
        /\ Len(pubResult.errs) <= 1
        /\ (~pool.exists \/ Count(pool) = 0 \/ selected = <<>> \/ ~casts)
             => (Len(pubResult.errs) = 1 /\ invoked = <<>>)
        /\ (invoked # <<>> /\ errorArose) => Len(pubResult.errs) = 1
        /\ pubResult.errs = <<>>
             => (Len(invoked) = 1 /\ invoked = selected /\ ~errorArose)

\* a PublishMetrics has succeeded on the one instance it selected
C10_Witness ==
    /\ pubResult.done
    /\ pubResult.errs = <<>>
    /\ Len(invoked) = 1
    /\ invoked = selected

\* t occurs in s
Contains(s, t) ==
    \E i \in 1..(Len(s) - Len(t) + 1) : SubSeq(s, i, i + Len(t) - 1) = t

\* C11: a SwapPlugins whose load succeeds, whose unload of the old plugin fails
\* and whose compensating unload of the new plugin fails too returns one error
\* whose text holds both the unload error and the rollback error; when the
\* rollback succeeds it returns the unload error of the old plugin.
C11_RollbackFailureReported ==
    [][\A path \in LifecyclePaths, out \in LifecyclePlugins :
        (lastCall'.op = "SwapPlugins" /\ lastCall'.arg = <<path, out>>)
        => /\ lastCall'.trace = <<"load ok", "unload failed", "rollback failed">>
                => /\ lastCall'.outcome = "error"
                   /\ Len(lastCall'.errors) = 1
                   /\ Contains(lastCall'.errors[1], UnloadError(out))
                   /\ Contains(lastCall'.errors[1], UnloadError(PluginAt(path)))
           /\ lastCall'.trace = <<"load ok", "unload failed", "rollback ok">>
                => /\ lastCall'.outcome = "error"
                   /\ lastCall'.errors = <<UnloadError(out)>>]_vars

\* SwapPlugins(path of tempcol:2, tempcol:1) has loaded tempcol:2 and failed
\* both to unload tempcol:1 and to unload tempcol:2 again
C11_Witness ==
    /\ lastCall.op = "SwapPlugins"
    /\ lastCall.arg = <<"/plugins/tempcol-2", PluginA>>
    /\ lastCall.trace = <<"load ok", "unload failed", "rollback failed">>
    /\ Len(lastCall.errors) = 1
    /\ PluginB \in loadedPlugins

\* the catalog's GetPlugin finds no plugin for a metric of the request
LookupMiss(cat, metricTypes) ==
    \E i \in 1..Len(metricTypes) :
        CatalogGetPlugin(cat, metricTypes[i].namespace, -1) = NoPlugin

\* C12: a CollectMetrics whose request holds a metric for which GetPlugin finds
\* no plugin has returned no metrics and exactly one error; it selected no
\* instance, started no worker, invoked no plugin and changed no cursor, hit
\* count or last-hit time, also for the metrics whose lookup succeeded.
C12_LookupMissAborts ==
    /\ [](LookupMiss(metricCatalog, request) =>
            /\ returned.done
            /\ returned.metrics = <<>>
            /\ Len(returned.errs) = 1
            /\ selected = <<>>
            /\ invoked = <<>>
            /\ \A k \in PluginKeys : unit[k].pc = "none"
            /\ wg = 0
            /\ hitCount = [i \in InstanceIds |-> 0])
    /\ [][LookupMiss(metricCatalog', request')
            => UNCHANGED <<cursor, hitCount, lastHitTime>>]_vars

\* a request whose first metric has an owner with a running instance and whose
\* second has none was answered with one error
C12_Witness ==
    /\ request = <<[namespace |-> NsCpu, version |-> -1],
                   [namespace |-> NsDisk, version |-> -1]>>
    /\ Count(GetPluginPool(collectors, KeyOf(PluginB))) > 0
    /\ returned.done
    /\ returned.errs = <<"Metric missing: disk/io">>
    /\ returned.metrics = <<>>

\* C13: in a CollectMetrics call with two or more groups, the list a worker
\* sends to the aggregator is the list its own plugin invocation returned, and
\* once the call has begun the combined result `metrics` changes only in the
\* aggregator's append, never in a worker's step.
C13_UnitOutcomesOwned ==
    /\ [](Cardinality(DOMAIN pluginToMetricMap) >= 2 =>
            \A k \in PluginKeys :
                unit[k].pc = "sendMetrics" =>
                    unit[k].val = Reply(unit[k].inst, unit[k].mt))
    /\ [][(Cardinality(DOMAIN pluginToMetricMap) >= 2 /\ pc # "idle"
            /\ metrics' # metrics)
            => aggMetrics.pc = "append" /\ aggMetrics'.pc = "recv"]_vars

\* the outcomes received so far from the worker of group k
Outcomes(k) == delivered[k].lists + delivered[k].errors

\* C14: the aggregators receive at most one outcome from a worker, a list or
\* an error and never both, and none from a group that was not dispatched;
\* CollectMetrics returns from its wait only when every dispatched worker has
\* delivered exactly one outcome, every delivered error is in `errs` and the
\* append of every delivered list is over; once the channels are closed no
\* worker has a send left to do.
C14_AggregationBarrier ==
    /\ [](\A k \in PluginKeys :
            /\ Outcomes(k) <= 1
            /\ unit[k].pc = "none" => Outcomes(k) = 0
            /\ closed => unit[k].pc \in {"none", "done"})
    /\ [][(pc = "wait" /\ returned'.done)
            => /\ aggMetrics.pc = "recv"
               /\ Cardinality({k \in PluginKeys : unit[k].pc # "none"}) = Len(invoked)
               /\ \A k \in PluginKeys :
                     unit[k].pc # "none" =>
                        /\ unit[k].pc = "done"
                        /\ Outcomes(k) = 1
                        /\ delivered[k].errors = 1 <=>
                              \E n \in 1..Len(errs) : errs[n] = unit[k].err]_vars

\* a call has returned after the aggregators received a list from one worker
\* and an error from another
C14_Witness ==
    /\ returned.done
    /\ closed
    /\ \E k1, k2 \in PluginKeys :
          /\ delivered[k1] = [lists |-> 1, errors |-> 0]
          /\ delivered[k2] = [lists |-> 0, errors |-> 1]

\* the instances of group k in a sequence of instances
OfGroup(q, k) == Cardinality({n \in 1..Len(q) : q[n].key = k})

\* C15: each iteration of the range loop handles exactly one group, whatever
\* the groups before it did: a group whose pool is absent or empty, or whose
\* selection fails, adds exactly one error and starts nothing; a group with a
\* usable pool whose selection succeeds has exactly one instance selected and,
\* that instance holding a collector client, its collection invoked exactly
\* once; and when the loop is over every group of the request was handled.
C15_GroupIndependence ==
    /\ [][(pc = "loop" /\ todo' # todo) =>
            /\ Cardinality(todo \ todo') = 1
            /\ todo' \subseteq todo
            /\ LET k == CHOOSE x \in todo : x \notin todo'
                   pool == GetPluginPool(collectors, k)
               IN
               IF ~pool.exists \/ Count(pool) = 0
               THEN /\ Len(errs') = Len(errs) + 1
                    /\ UNCHANGED <<selected, invoked, unit, wg, hitCount>>
               ELSE \/ /\ errs' = Append(errs, "strategy failed")
                       /\ UNCHANGED <<selected, invoked, unit, wg, hitCount>>
                    \/ /\ Len(selected') = Len(selected) + 1
                       /\ OfGroup(selected', k) = 1
                       /\ \E x \in 1..Count(pool) :
                            /\ pool.members[x].id = selected'[Len(selected')]
                            /\ IF pool.members[x].client = "collector"
                               THEN /\ errs' = errs
                                    /\ invoked' = Append(invoked, pool.members[x].id)
                                    /\ OfGroup(invoked', k) = 1
                                    /\ unit'[k].pc = "call"
                                    /\ unit'[k].inst = pool.members[x].id
                               ELSE /\ Len(errs') = Len(errs) + 1
                                    /\ UNCHANGED <<invoked, unit, wg>>]_vars
    /\ []((pc = "wait") => todo = {})

\* the loop is over: the group memcol:1, whose pool is absent or empty, gave
\* one error and the group tempcol:2 was dispatched to one instance
C15_Witness ==
    /\ pc = "wait"
    /\ DOMAIN pluginToMetricMap = {KeyOf(PluginB), KeyOf(PluginC)}
    /\ Count(GetPluginPool(collectors, KeyOf(PluginC))) = 0
    /\ Len(errs) = 1
    /\ unit[KeyOf(PluginC)].pc = "none"
    /\ unit[KeyOf(PluginB)].pc = "call"
    /\ OfGroup(invoked, KeyOf(PluginB)) = 1

\* C16: with several goroutines calling CollectMetrics, each several times, and
\* selecting the same instance, no step lowers the hit count of an instance.
C16_HitCountMonotonic ==
    [][\A i \in InstanceIds : hitCount'[i] >= hitCount[i]]_vars

\* C17: a SwapPlugins whose load of the new plugin fails returns the load
\* error and has attempted no unload; the registry and the catalog are as they
\* were, the old plugin is still loaded if it was, the new one is not loaded if
\* it was not, and no event is emitted. A path that holds no plugin always
\* fails this way.
C17_SwapLoadErrorChangesNothing ==
    [][\A path \in LifecyclePaths, out \in LifecyclePlugins :
        (lastCall'.op = "SwapPlugins" /\ lastCall'.arg = <<path, out>>)
        => /\ ~CanLoad(path)
                => \E n \in 1..Len(lastCall'.trace) : lastCall'.trace[n] = "load failed"
           /\ (\E n \in 1..Len(lastCall'.trace) : lastCall'.trace[n] = "load failed")
                => /\ lastCall'.trace = <<"load failed">>
                   /\ lastCall'.outcome = "error"
                   /\ lastCall'.errors = <<LoadError(path)>>
                   /\ loadedPlugins' = loadedPlugins
                   /\ metricCatalog' = metricCatalog
                   /\ events' = <<>>]_vars

\* SwapPlugins(path of tempcol:2, tempcol:1) failed to load tempcol:2 with
\* tempcol:1 loaded
C17_Witness ==
    /\ lastCall.op = "SwapPlugins"
    /\ lastCall.arg = <<"/plugins/tempcol-2", PluginA>>
    /\ lastCall.trace = <<"load failed">>
    /\ lastCall.errors = <<LoadError("/plugins/tempcol-2")>>
    /\ PluginA \in loadedPlugins
    /\ PluginB \notin loadedPlugins

\* C18: when every invoked plugin answers and the goroutines are scheduled
\* fairly, a CollectMetrics call that has begun returns, whatever the number of
\* groups and of groups that fail before dispatch, and every outcome a worker
\* has to send is received.
C18_CollectTerminates ==
    /\ (pc \in {"loop", "wait"}) ~> returned.done
    /\ \A k \in PluginKeys :
          (unit[k].pc \in {"call", "eval", "sendMetrics", "sendError"})
              ~> (unit[k].pc = "done" /\ Outcomes(k) = 1)

\* a call with two groups has returned the lists both workers sent
C18_Witness ==
    /\ returned.done
    /\ returned.errs = <<>>
    /\ \E k1, k2 \in PluginKeys :
          /\ k1 # k2
          /\ delivered[k1].lists = 1
          /\ delivered[k2].lists = 1

\* the key of the newest plugin that owns a metric type's namespace
OwnerKey(cat, mt) == KeyOf(CatalogGetPlugin(cat, mt.namespace, -1))

\* a CollectMetrics call has grouped its request, every lookup having succeeded
Grouped ==
    /\ pc \in {"loop", "wait", "returned"}
    /\ ~pubResult.done
    /\ ~LookupMiss(metricCatalog, request)

\* C19: CollectMetrics puts every requested metric, whatever version it asks
\* for, in the group of the plugin GetPlugin gives for (namespace, -1) and in no
\* other: two metrics that differ only in the version are in the same group, a
\* metric pinned to version 1 of cpu/temp is in the group of tempcol:2, the
\* newest owner, and a worker is started on an instance of its group's plugin
\* only.
C19_GroupingIgnoresVersion ==
    Grouped =>
        /\ \A i \in 1..Len(request) :
              /\ OwnerKey(metricCatalog, request[i]) \in DOMAIN pluginToMetricMap
              /\ \A k \in DOMAIN pluginToMetricMap :
                    (\E n \in 1..Len(pluginToMetricMap[k].metricTypes) :
                        pluginToMetricMap[k].metricTypes[n] = request[i])
                    <=> k = OwnerKey(metricCatalog, request[i])
        /\ \A i, j \in 1..Len(request) :
              request[i].namespace = request[j].namespace
                 => OwnerKey(metricCatalog, request[i]) = OwnerKey(metricCatalog, request[j])
        /\ \A i \in 1..Len(request) :
              request[i] = [namespace |-> NsCpu, version |-> 1]
                 => /\ KeyOf(PluginA) \notin DOMAIN pluginToMetricMap
                    /\ unit[KeyOf(PluginA)].pc = "none"
                    /\ \E n \in 1..Len(pluginToMetricMap[KeyOf(PluginB)].metricTypes) :
                          pluginToMetricMap[KeyOf(PluginB)].metricTypes[n] = request[i]
        /\ \A k \in PluginKeys :
              unit[k].pc # "none" =>
                 /\ unit[k].inst.key = k
                 /\ unit[k].mt = pluginToMetricMap[k].metricTypes

\* cpu/temp was asked for at version 1 and at the newest version: both are in
\* the one group of tempcol:2, whose worker was started with them
C19_Witness ==
    /\ request = <<[namespace |-> NsCpu, version |-> 1],
                   [namespace |-> NsCpu, version |-> -1]>>
    /\ DOMAIN pluginToMetricMap = {KeyOf(PluginB)}
    /\ unit[KeyOf(PluginB)].pc = "call"
    /\ unit[KeyOf(PluginB)].mt = request

RECURSIVE SumOfSizes(_, _)
\* the sum of the sizes of the groups of the keys in S
SumOfSizes(pmts, S) ==
    IF S = {} THEN 0
    ELSE LET k == CHOOSE x \in S : TRUE
         IN Len(pmts[k].metricTypes) + SumOfSizes(pmts, S \ {k})

RECURSIVE OwnedBy(_, _, _)
\* the metric types of a request that key k owns, in the request's order
OwnedBy(cat, metricTypes, k) ==
    IF metricTypes = <<>> THEN <<>>
    ELSE IF OwnerKey(cat, Head(metricTypes)) = k
         THEN <<Head(metricTypes)>> \o OwnedBy(cat, Tail(metricTypes), k)
         ELSE OwnedBy(cat, Tail(metricTypes), k)

\* C20: when every lookup succeeds the groups partition the request: the keys
\* are the keys of the owning plugins, the group of a key holds exactly the
\* occurrences that plugin owns, in the order of the request, and records that
\* plugin; no group is empty; the sizes add up to the length of the request;
\* and a group is dispatched to at most one instance.
C20_GroupingPartitions ==
    Grouped =>
        /\ DOMAIN pluginToMetricMap =
              {OwnerKey(metricCatalog, request[i]) : i \in 1..Len(request)}
        /\ \A k \in DOMAIN pluginToMetricMap :
              /\ pluginToMetricMap[k].metricTypes = OwnedBy(metricCatalog, request, k)
              /\ pluginToMetricMap[k].metricTypes # <<>>
              /\ KeyOf(pluginToMetricMap[k].plugin) = k
        /\ SumOfSizes(pluginToMetricMap, DOMAIN pluginToMetricMap) = Len(request)
        /\ \A k \in PluginKeys :
              /\ OfGroup(selected, k) <= 1
              /\ OfGroup(invoked, k) <= 1
              /\ k \notin DOMAIN pluginToMetricMap => OfGroup(selected, k) = 0

\* a request for mem/free then cpu/temp made two groups of one metric, each
\* dispatched to one instance
C20_Witness ==
    /\ request = <<[namespace |-> NsMem, version |-> -1],
                   [namespace |-> NsCpu, version |-> -1]>>
    /\ DOMAIN pluginToMetricMap = {KeyOf(PluginB), KeyOf(PluginC)}
    /\ Len(invoked) = 2
    /\ OfGroup(invoked, KeyOf(PluginB)) = 1
    /\ OfGroup(invoked, KeyOf(PluginC)) = 1

====
